---- MODULE Spec2Model ----
(***************************************************************************)
(* A model of the two singly-linked stacks of rust-lists:                  *)
(*   src/src/first.rs   List      (i32 elements, enum Link)                *)
(*   src/src/second.rs  List<T>   (generic, Option<Box<Node<T>>>, cursors) *)
(* The heap is explicit: every Box<Node> is a cell at an address, a Link   *)
(* is 0 (Empty / None) or the address of the boxed node it owns.           *)
(***************************************************************************)
EXTENDS Integers, Sequences, FiniteSets, TLC

\* ---------------------------------------------------------------- bounds
MaxNodes == 3
MaxElem == 2
MaxEmptyPops == 2

Addrs == 1..MaxNodes
Elems == 1..MaxElem
NULL == 0
None == <<>>
Some(x) == <<x>>

VARIABLES
    target,       \* which module's list this run exercises: "first" | "second"
    pc,           \* position of the single thread of control
    moved,        \* second.rs: the List has been moved into an IntoIterator
    head,         \* List.head / List<T>.head : a Link
    heap,         \* address -> cell of a Box<Node>
    new_node,     \* push: the freshly boxed node, before it is linked
    node,         \* pop: the node taken out of head
    cur_link,     \* drop: the loop variable
    boxed_node,   \* drop: the node bound by `while let`
    iter_next,    \* Iter.next
    itm_next,     \* IterMut.next
    itm_node,     \* IterMut::next: the value taken out of self.next
    yielded,      \* addresses whose element reference the live cursor / peek_mut handed out
    drained,      \* values an IntoIterator has yielded
    ret,          \* result of the last completed call (an Option)
    ret_ref,      \* the address the returned reference points into (NULL: none / by value)
    last_op,      \* the last completed call
    ghost,        \* the abstract stack: values pushed and not yet popped, newest first
    snap,         \* the abstract stack when the live Iter / IntoIterator was created
    empty_pops,   \* consecutive pops that returned None (capped)
    depth,        \* teardown: deepest nesting of node destructors so far
    iterations,   \* teardown: loop iterations run
    len_at_drop,  \* teardown: chain length when drop was entered
    fault,        \* "none" | "double_free"
    parked,       \* side-by-side run: head, heap and abstract stack of the other list
    sched         \* side-by-side run: the call being made on both lists

vars == <<target, pc, moved, head, heap, new_node, node, cur_link, boxed_node,
          iter_next, itm_next, itm_node, yielded, drained, ret, ret_ref, last_op,
          ghost, snap, empty_pops, depth, iterations, len_at_drop, fault, parked,
          sched>>

locals == <<new_node, node, cur_link, boxed_node>>
cursors == <<iter_next, itm_next, itm_node, yielded, drained, snap>>
teardown == <<depth, iterations, len_at_drop>>
pair == <<parked, sched>>

\* ---------------------------------------------------------------- heap
\* struct Node { elem, next }, boxed.  A cell that is not allocated is FreeCell.
FreeCell == [live |-> FALSE, elem |-> 0, next |-> NULL]
Node(e, n) == [live |-> TRUE, elem |-> e, next |-> n]

Live(h) == {a \in Addrs : h[a].live}

Min(a, b) == IF a < b THEN a ELSE b
Max(a, b) == IF a < b THEN b ELSE a

\* The elements of the chain a link owns, head first.
RECURSIVE ChainFrom(_, _, _)
ChainFrom(h, link, fuel) ==
    IF link = NULL \/ fuel = 0 THEN <<>>
    ELSE <<h[link].elem>> \o ChainFrom(h, h[link].next, fuel - 1)

Chain == ChainFrom(heap, head, MaxNodes + 1)

\* The addresses of the chain a link owns, head first.
RECURSIVE AddrsFrom(_, _, _)
AddrsFrom(h, link, fuel) ==
    IF link = NULL \/ fuel = 0 THEN <<>>
    ELSE <<link>> \o AddrsFrom(h, h[link].next, fuel - 1)

ChainAddrs == AddrsFrom(heap, head, MaxNodes + 1)

\* What a reference to the element of node a reads (None for no reference).
Deref(a) == IF a = NULL THEN None ELSE Some(heap[a].elem)

\* s is an initial segment of t.
Prefix(s, t) == Len(s) <= Len(t) /\ s = SubSeq(t, 1, Len(s))

\* Drop glue of a Link: dropping Some(Box<Node>) drops the node's fields (its
\* next link, recursively) and then frees the box.  Returns the heap after,
\* the nesting depth of node destructors, the nodes freed, and whether a box
\* that was not allocated was freed.
RECURSIVE drop_link(_, _)
drop_link(h, link) ==
    IF link = NULL THEN [heap |-> h, depth |-> 0, freed |-> {}, fault |-> "none"]
    ELSE IF ~h[link].live
         THEN [heap |-> h, depth |-> 1, freed |-> {}, fault |-> "double_free"]
    ELSE LET r == drop_link([h EXCEPT ![link] = FreeCell], h[link].next)
         IN  [heap |-> r.heap, depth |-> r.depth + 1,
              freed |-> r.freed \cup {link}, fault |-> r.fault]

\* ---------------------------------------------------------------- new
\* List { head: Link::Empty } / List { head: None }, with nothing allocated and
\* nothing pushed.
NewList == [head |-> NULL, heap |-> [a \in Addrs |-> FreeCell], ghost |-> <<>>]

\* List::new() / List<T>::new(): head is Empty / None.
Init ==
    /\ target \in {"first", "second"}
    /\ pc = "idle"
    /\ moved = FALSE
    /\ head = NULL
    /\ heap = [a \in Addrs |-> FreeCell]
    /\ new_node = NULL /\ node = NULL /\ cur_link = NULL /\ boxed_node = NULL
    /\ iter_next = NULL /\ itm_next = NULL /\ itm_node = NULL
    /\ yielded = <<>> /\ drained = <<>> /\ snap = <<>>
    /\ ret = None /\ ret_ref = NULL /\ last_op = "new"
    /\ ghost = <<>>
    /\ empty_pops = 0
    /\ depth = 0 /\ iterations = 0 /\ len_at_drop = 0
    /\ fault = "none"
    /\ parked = NewList
    /\ sched = [op |-> "off", arg |-> 0, ret |-> None]

\* ---------------------------------------------------------------- second.rs: push
\* Mutant: the new node's next link is the new node itself.
push_new_node_self(elem, a) ==
    /\ heap' = [heap EXCEPT ![a] = Node(elem, a)]
    /\ head' = NULL
    /\ new_node' = a

\* Mutant: the new node does not take over the old chain (next: None).
push_new_node_no_tail(elem, a) ==
    /\ heap' = [heap EXCEPT ![a] = Node(elem, NULL)]
    /\ head' = NULL
    /\ new_node' = a

\* Box::new(Node { elem, next: mem::replace(&mut self.head, None) })
push_new_node(elem, a) ==
    /\ heap' = [heap EXCEPT ![a] = Node(elem, head)]
    /\ head' = NULL
    /\ new_node' = a

push_box ==
    /\ target = "second" /\ pc = "idle" /\ ~moved
    /\ \E elem \in Elems : \E a \in Addrs \ Live(heap) :
          /\ push_new_node(elem, a)
          /\ ghost' = <<elem>> \o ghost
    /\ pc' = "push_set"
    /\ UNCHANGED <<target, pair, moved, node, cur_link, boxed_node, cursors, ret, ret_ref,
                   last_op, empty_pops, teardown, fault>>

\* self.head = Some(new_node)
push_set_head ==
    /\ head' = new_node
    /\ new_node' = NULL

push_set ==
    /\ target = "second" /\ pc = "push_set"
    /\ push_set_head
    /\ pc' = "idle"
    /\ last_op' = "push" /\ ret' = None /\ ret_ref' = NULL
    /\ empty_pops' = 0
    /\ UNCHANGED <<target, pair, moved, heap, node, cur_link, boxed_node, cursors, ghost,
                   teardown, fault>>

\* ---------------------------------------------------------------- second.rs: pop
\* Mutant: the closure gets the node and head keeps pointing at it (no take).
pop_take_head_alias ==
    /\ node' = head
    /\ head' = head

\* self.head.take(): the Option moved out of head, None left behind.
pop_take_head ==
    /\ node' = head
    /\ head' = NULL

\* Mutant: an empty list pops a default value instead of None.
pop_none_default ==
    /\ ret' = Some(0) /\ ret_ref' = NULL
    /\ empty_pops' = Min(empty_pops + 1, MaxEmptyPops)
    /\ pc' = "idle"

\* Option::map on None: the closure does not run and pop returns None.
pop_none ==
    /\ ret' = None /\ ret_ref' = NULL
    /\ empty_pops' = Min(empty_pops + 1, MaxEmptyPops)
    /\ pc' = "idle"

pop_take ==
    /\ target = "second" /\ pc = "idle"
    /\ pop_take_head
    /\ IF head = NULL
       THEN /\ pop_none
            /\ last_op' = IF moved THEN "next" ELSE "pop"
       ELSE /\ pc' = "pop_map"
            /\ UNCHANGED <<ret, ret_ref, last_op, empty_pops>>
    /\ UNCHANGED <<target, pair, moved, heap, new_node, cur_link, boxed_node, cursors, ghost,
                   teardown, fault>>

\* A pop that copies the next link into head and drops the node with the link
\* still in it.
pop_map_node_cascade ==
    /\ head' = heap[node].next
    /\ ret' = Some(heap[node].elem)
    /\ heap' = drop_link(heap, node).heap
    /\ node' = NULL

\* |node| { self.head = node.next; node.elem }: both fields are moved out of the
\* box; the shell is dropped at the end of the closure, and its drop glue finds
\* no next link left in it.
pop_map_node ==
    /\ head' = heap[node].next
    /\ ret' = Some(heap[node].elem)
    /\ heap' = drop_link([heap EXCEPT ![node].next = NULL], node).heap
    /\ node' = NULL

pop_map ==
    /\ target = "second" /\ pc = "pop_map"
    /\ pop_map_node
    /\ ret_ref' = NULL
    /\ last_op' = IF moved THEN "next" ELSE "pop"
    /\ ghost' = Tail(ghost)
    /\ drained' = IF moved THEN Append(drained, ret'[1]) ELSE drained
    /\ empty_pops' = 0
    /\ pc' = "idle"
    /\ UNCHANGED <<target, pair, moved, new_node, cur_link, boxed_node, iter_next, itm_next,
                   itm_node, yielded, snap, teardown, fault>>

\* A call of List::pop by the owner of the list.
pop == ~moved /\ pop_take

\* Mutant: next reads the head element and leaves it in the list.
IntoIterator_next_peek ==
    /\ moved /\ target = "second" /\ pc = "idle"
    /\ ret' = Deref(head) /\ ret_ref' = NULL
    /\ drained' = IF head = NULL THEN drained ELSE Append(drained, heap[head].elem)
    /\ last_op' = "next"
    /\ UNCHANGED <<target, pair, pc, moved, head, heap, locals, iter_next, itm_next, itm_node,
                   yielded, snap, ghost, empty_pops, teardown, fault>>

\* IntoIterator::next: self.0.pop()
IntoIterator_next == moved /\ pop_take

\* ---------------------------------------------------------------- second.rs: peek
\* Mutant: the view is of the node after the head.
peek_ref_second == IF head = NULL THEN NULL ELSE heap[head].next

\* self.head.as_ref().map(|node| &node.elem): the node whose element the
\* returned reference points to, NULL for None.
peek_ref == head

\* Mutant: the Option is moved out of head (self.head.take().map(..)).
peek_self_take == head' = NULL /\ UNCHANGED heap

\* &self: a shared borrow; as_ref() leaves the Option where it is.
peek_self == UNCHANGED <<head, heap>>

\* List::peek(&self): may be called while shared cursors are alive.
peek ==
    /\ target = "second" /\ pc \in {"idle", "iter"} /\ ~moved
    /\ ret_ref' = peek_ref
    /\ ret' = Deref(peek_ref)
    /\ last_op' = "peek"
    /\ peek_self
    /\ UNCHANGED <<target, pair, pc, moved, locals, cursors, ghost, empty_pops, teardown,
                   fault>>

\* Mutant: the exclusive view is of the node after the head.
peek_mut_ref_second == IF head = NULL THEN NULL ELSE heap[head].next

\* self.head.as_mut().map(|node| &mut node.elem)
peek_mut_ref == head

\* List::peek_mut(&mut self): the list stays exclusively borrowed while the
\* returned reference is alive.
peek_mut ==
    /\ target = "second" /\ pc = "idle" /\ ~moved
    /\ ret_ref' = peek_mut_ref
    /\ ret' = Deref(peek_mut_ref)
    /\ yielded' = IF peek_mut_ref = NULL THEN <<>> ELSE <<peek_mut_ref>>
    /\ pc' = IF peek_mut_ref = NULL THEN "idle" ELSE "peek_mut"
    /\ last_op' = "peek_mut"
    /\ UNCHANGED <<target, pair, moved, head, heap, locals, iter_next, itm_next, itm_node,
                   drained, snap, ghost, empty_pops, teardown, fault>>

\* The caller assigns w through the k-th exclusive element reference it holds
\* (&mut T from peek_mut, or Item = &'a mut T from IterMut::next).
write_ref(k, w) ==
    heap' = [heap EXCEPT ![yielded[k]].elem = w]

write ==
    /\ target = "second" /\ pc \in {"peek_mut", "iter_mut"}
    /\ \E k \in 1..Len(yielded) : \E w \in Elems :
          /\ write_ref(k, w)
          /\ ghost' = [ghost EXCEPT ![k] = w]
    /\ last_op' = "write" /\ ret' = None /\ ret_ref' = NULL
    /\ UNCHANGED <<target, pair, pc, moved, head, locals, cursors, empty_pops, teardown,
                   fault>>

\* The borrow ends: the cursor, or the reference from peek_mut, is dropped.
\* Iter and IterMut own nothing, so nothing is freed.
release ==
    /\ target = "second" /\ pc \in {"peek_mut", "iter", "iter_mut"}
    /\ pc' = "idle"
    /\ iter_next' = NULL /\ itm_next' = NULL /\ yielded' = <<>> /\ snap' = <<>>
    /\ last_op' = "release" /\ ret' = None /\ ret_ref' = NULL
    /\ UNCHANGED <<target, pair, moved, head, heap, locals, itm_node, drained, ghost,
                   empty_pops, teardown, fault>>

\* ---------------------------------------------------------------- second.rs: Iter
\* Iter { next: self.head.as_deref() }
iter ==
    /\ target = "second" /\ pc = "idle" /\ ~moved
    /\ iter_next' = head
    /\ yielded' = <<>> /\ snap' = ghost
    /\ pc' = "iter"
    /\ last_op' = "iter"
    /\ UNCHANGED <<target, pair, moved, head, heap, locals, itm_next, itm_node, drained, ret,
                   ret_ref, ghost, empty_pops, teardown, fault>>

\* Mutant: an exhausted cursor starts again from the head.
Iter_next_map_restart ==
    IF iter_next = NULL
    THEN /\ ret_ref' = NULL
         /\ iter_next' = head
         /\ UNCHANGED yielded
    ELSE /\ iter_next' = heap[iter_next].next
         /\ ret_ref' = iter_next
         /\ yielded' = Append(yielded, iter_next)

\* Mutant: the cursor is not advanced.
Iter_next_map_stuck ==
    IF iter_next = NULL
    THEN /\ ret_ref' = NULL
         /\ UNCHANGED <<iter_next, yielded>>
    ELSE /\ iter_next' = iter_next
         /\ ret_ref' = iter_next
         /\ yielded' = Append(yielded, iter_next)

\* self.next.map(|node| { self.next = node.next.as_deref(); &node.elem })
Iter_next_map ==
    IF iter_next = NULL
    THEN /\ ret_ref' = NULL
         /\ UNCHANGED <<iter_next, yielded>>
    ELSE /\ iter_next' = heap[iter_next].next
         /\ ret_ref' = iter_next
         /\ yielded' = Append(yielded, iter_next)

Iter_next ==
    /\ target = "second" /\ pc = "iter"
    /\ Iter_next_map
    /\ ret' = Deref(ret_ref')
    /\ last_op' = "iter_next"
    /\ UNCHANGED <<target, pair, pc, moved, head, heap, locals, itm_next, itm_node, drained,
                   snap, ghost, empty_pops, teardown, fault>>

\* ---------------------------------------------------------------- second.rs: IterMut
\* IterMut { next: self.head.as_deref_mut() }
iter_mut ==
    /\ target = "second" /\ pc = "idle" /\ ~moved
    /\ itm_next' = head
    /\ yielded' = <<>> /\ snap' = <<>>
    /\ pc' = "iter_mut"
    /\ last_op' = "iter_mut"
    /\ UNCHANGED <<target, pair, moved, head, heap, locals, iter_next, itm_node, drained, ret,
                   ret_ref, ghost, empty_pops, teardown, fault>>

\* Mutant: next reads the held reference and leaves it in the cursor.
IterMut_next_take_keeps ==
    /\ target = "second" /\ pc = "iter_mut"
    /\ itm_node' = itm_next
    /\ itm_next' = itm_next
    /\ pc' = "iter_mut_map"
    /\ UNCHANGED <<target, pair, moved, head, heap, locals, iter_next, yielded, drained, snap,
                   ret, ret_ref, last_op, ghost, empty_pops, teardown, fault>>

\* self.next.take()
IterMut_next_take ==
    /\ target = "second" /\ pc = "iter_mut"
    /\ itm_node' = itm_next
    /\ itm_next' = NULL
    /\ pc' = "iter_mut_map"
    /\ UNCHANGED <<target, pair, moved, head, heap, locals, iter_next, yielded, drained, snap,
                   ret, ret_ref, last_op, ghost, empty_pops, teardown, fault>>

\* Mutant: the cursor advances two nodes.
IterMut_next_map_skip ==
    IF itm_node = NULL
    THEN /\ ret_ref' = NULL
         /\ UNCHANGED <<itm_next, yielded>>
    ELSE /\ itm_next' = IF heap[itm_node].next = NULL THEN NULL
                        ELSE heap[heap[itm_node].next].next
         /\ ret_ref' = itm_node
         /\ yielded' = Append(yielded, itm_node)

\* .map(|node| { self.next = node.next.as_deref_mut(); &mut node.elem })
IterMut_next_map ==
    IF itm_node = NULL
    THEN /\ ret_ref' = NULL
         /\ UNCHANGED <<itm_next, yielded>>
    ELSE /\ itm_next' = heap[itm_node].next
         /\ ret_ref' = itm_node
         /\ yielded' = Append(yielded, itm_node)

IterMut_next ==
    /\ target = "second" /\ pc = "iter_mut_map"
    /\ IterMut_next_map
    /\ itm_node' = NULL
    /\ ret' = Deref(ret_ref')
    /\ pc' = "iter_mut"
    /\ last_op' = "iter_mut_next"
    /\ UNCHANGED <<target, pair, moved, head, heap, locals, iter_next, drained, snap, ghost,
                   empty_pops, teardown, fault>>

\* ---------------------------------------------------------------- second.rs: IntoIterator
\* IntoIterator(self): the list is moved into the cursor.
into_iter ==
    /\ target = "second" /\ pc = "idle" /\ ~moved
    /\ moved' = TRUE
    /\ drained' = <<>> /\ snap' = ghost
    /\ last_op' = "into_iter"
    /\ UNCHANGED <<target, pair, pc, head, heap, locals, iter_next, itm_next, itm_node,
                   yielded, ret, ret_ref, ghost, empty_pops, teardown, fault>>

\* ---------------------------------------------------------------- second.rs: Drop
\* Mutant: drop leaves the chain in head, so the loop has nothing to do and
\* the drop glue of the head field frees the chain.
drop_replace_head_skips ==
    /\ cur_link' = NULL
    /\ head' = head

\* let mut cur_link = mem::replace(&mut self.head, None);
drop_replace_head ==
    /\ cur_link' = head
    /\ head' = NULL

drop_enter ==
    /\ target = "second" /\ pc = "idle"
    /\ drop_replace_head
    /\ len_at_drop' = Len(ChainAddrs)
    /\ depth' = 0 /\ iterations' = 0
    /\ pc' = "drop_loop"
    /\ UNCHANGED <<target, pair, moved, heap, new_node, node, boxed_node, cursors, ret,
                   ret_ref, last_op, ghost, empty_pops, fault>>

\* Mutant: the loop body clears the loop variable and leaves the node's next
\* link in place (cur_link = None).
drop_detach_next_forgets ==
    /\ boxed_node' = cur_link
    /\ cur_link' = NULL
    /\ UNCHANGED heap

\* while let Some(mut boxed_node) = cur_link {
\*     cur_link = mem::replace(&mut boxed_node.next, None);
drop_detach_next ==
    /\ boxed_node' = cur_link
    /\ cur_link' = heap[cur_link].next
    /\ heap' = [heap EXCEPT ![cur_link].next = NULL]

drop_while_let ==
    /\ target = "second" /\ pc = "drop_loop" /\ cur_link # NULL
    /\ drop_detach_next
    /\ pc' = "drop_scope_end"
    /\ UNCHANGED <<target, pair, moved, head, new_node, node, cursors, ret, ret_ref, last_op,
                   ghost, empty_pops, teardown, fault>>

\* Mutant: the node is forgotten instead of dropped (mem::forget(boxed_node)).
drop_boxed_node_forget ==
    /\ target = "second" /\ pc = "drop_scope_end"
    /\ iterations' = iterations + 1
    /\ boxed_node' = NULL
    /\ pc' = "drop_loop"
    /\ UNCHANGED <<target, pair, moved, head, heap, new_node, node, cur_link, cursors, ret,
                   ret_ref, last_op, ghost, empty_pops, depth, len_at_drop, fault>>

\* } : boxed_node goes out of scope and its drop glue runs.
drop_boxed_node ==
    /\ target = "second" /\ pc = "drop_scope_end"
    /\ LET r == drop_link(heap, boxed_node)
       IN  /\ heap' = r.heap
           /\ depth' = Max(depth, r.depth)
           /\ fault' = IF fault = "none" THEN r.fault ELSE fault
    /\ iterations' = iterations + 1
    /\ boxed_node' = NULL
    /\ pc' = "drop_loop"
    /\ UNCHANGED <<target, pair, moved, head, new_node, node, cur_link, cursors, ret, ret_ref,
                   last_op, ghost, empty_pops, len_at_drop>>

\* The loop ends on cur_link = None; drop returns and the drop glue of the
\* List's own field, head, runs.
drop_exit ==
    /\ target = "second" /\ pc = "drop_loop" /\ cur_link = NULL
    /\ LET r == drop_link(heap, head)
       IN  /\ heap' = r.heap
           /\ depth' = Max(depth, r.depth)
           /\ fault' = IF fault = "none" THEN r.fault ELSE fault
    /\ head' = NULL
    /\ pc' = "dropped"
    /\ last_op' = "drop"
    /\ ghost' = <<>>
    /\ UNCHANGED <<target, pair, moved, locals, cursors, ret, ret_ref, empty_pops, iterations,
                   len_at_drop>>

\* ---------------------------------------------------------------- first.rs: push
\* Mutant: the new node does not take over the old chain (next: Link::Empty).
first_push_new_node_no_tail(elem, a) ==
    /\ heap' = [heap EXCEPT ![a] = Node(elem, NULL)]
    /\ head' = NULL
    /\ new_node' = a

\* Box::new(Node { elem, next: mem::replace(&mut self.head, Link::Empty) })
first_push_new_node(elem, a) ==
    /\ heap' = [heap EXCEPT ![a] = Node(elem, head)]
    /\ head' = NULL
    /\ new_node' = a

first_push_box ==
    /\ target = "first" /\ pc = "idle"
    /\ \E elem \in Elems : \E a \in Addrs \ Live(heap) :
          /\ first_push_new_node(elem, a)
          /\ ghost' = <<elem>> \o ghost
    /\ pc' = "push_set"
    /\ UNCHANGED <<target, pair, moved, node, cur_link, boxed_node, cursors, ret, ret_ref,
                   last_op, empty_pops, teardown, fault>>

\* self.head = Link::More(new_node)
first_push_set_head ==
    /\ head' = new_node
    /\ new_node' = NULL

first_push_set ==
    /\ target = "first" /\ pc = "push_set"
    /\ first_push_set_head
    /\ pc' = "idle"
    /\ last_op' = "push" /\ ret' = None /\ ret_ref' = NULL
    /\ empty_pops' = 0
    /\ UNCHANGED <<target, pair, moved, heap, node, cur_link, boxed_node, cursors, ghost,
                   teardown, fault>>

\* ---------------------------------------------------------------- first.rs: pop
\* match mem::replace(&mut self.head, Link::Empty) {
first_pop_replace_head ==
    /\ node' = head
    /\ head' = NULL

\* Link::Empty => None,
first_pop_empty ==
    /\ ret' = None /\ ret_ref' = NULL
    /\ empty_pops' = Min(empty_pops + 1, MaxEmptyPops)
    /\ pc' = "idle"

first_pop ==
    /\ target = "first" /\ pc = "idle"
    /\ first_pop_replace_head
    /\ IF head = NULL
       THEN /\ first_pop_empty
            /\ last_op' = "pop"
       ELSE /\ pc' = "pop_more"
            /\ UNCHANGED <<ret, ret_ref, last_op, empty_pops>>
    /\ UNCHANGED <<target, pair, moved, heap, new_node, cur_link, boxed_node, cursors, ghost,
                   teardown, fault>>

\* A pop that takes the node out and does not put its next link back in head.
first_pop_more_node_unlinked ==
    /\ head' = NULL
    /\ ret' = Some(heap[node].elem)
    /\ heap' = [heap EXCEPT ![node] = FreeCell]
    /\ node' = NULL

\* Link::More(node) => { self.head = node.next; Some(node.elem) }: the shell is
\* dropped at the end of the arm with its next link moved out.
first_pop_more_node ==
    /\ head' = heap[node].next
    /\ ret' = Some(heap[node].elem)
    /\ heap' = drop_link([heap EXCEPT ![node].next = NULL], node).heap
    /\ node' = NULL

first_pop_more ==
    /\ target = "first" /\ pc = "pop_more"
    /\ first_pop_more_node
    /\ ret_ref' = NULL
    /\ last_op' = "pop"
    /\ ghost' = Tail(ghost)
    /\ empty_pops' = 0
    /\ pc' = "idle"
    /\ UNCHANGED <<target, pair, moved, new_node, cur_link, boxed_node, cursors, teardown,
                   fault>>

\* ---------------------------------------------------------------- first.rs: Drop
\* let mut cur_link = mem::replace(&mut self.head, Link::Empty);
first_drop_replace_head ==
    /\ cur_link' = head
    /\ head' = NULL

first_drop_enter ==
    /\ target = "first" /\ pc = "idle"
    /\ first_drop_replace_head
    /\ len_at_drop' = Len(ChainAddrs)
    /\ depth' = 0 /\ iterations' = 0
    /\ pc' = "drop_loop"
    /\ UNCHANGED <<target, pair, moved, heap, new_node, node, boxed_node, cursors, ret,
                   ret_ref, last_op, ghost, empty_pops, fault>>

\* Mutant: the loop body clears the loop variable and leaves the node's next
\* link in place (cur_link = Link::Empty).
first_drop_detach_next_forgets ==
    /\ boxed_node' = cur_link
    /\ cur_link' = NULL
    /\ UNCHANGED heap

\* while let Link::More(mut boxed_node) = cur_link {
\*     cur_link = mem::replace(&mut boxed_node.next, Link::Empty);
first_drop_detach_next ==
    /\ boxed_node' = cur_link
    /\ cur_link' = heap[cur_link].next
    /\ heap' = [heap EXCEPT ![cur_link].next = NULL]

first_drop_while_let ==
    /\ target = "first" /\ pc = "drop_loop" /\ cur_link # NULL
    /\ first_drop_detach_next
    /\ pc' = "drop_scope_end"
    /\ UNCHANGED <<target, pair, moved, head, new_node, node, cursors, ret, ret_ref, last_op,
                   ghost, empty_pops, teardown, fault>>

\* } : boxed_node goes out of scope and its drop glue runs.
first_drop_boxed_node ==
    /\ target = "first" /\ pc = "drop_scope_end"
    /\ LET r == drop_link(heap, boxed_node)
       IN  /\ heap' = r.heap
           /\ depth' = Max(depth, r.depth)
           /\ fault' = IF fault = "none" THEN r.fault ELSE fault
    /\ iterations' = iterations + 1
    /\ boxed_node' = NULL
    /\ pc' = "drop_loop"
    /\ UNCHANGED <<target, pair, moved, head, new_node, node, cur_link, cursors, ret, ret_ref,
                   last_op, ghost, empty_pops, len_at_drop>>

\* The loop ends on cur_link = Empty; drop returns and the drop glue of the
\* List's own field, head, runs.
first_drop_exit ==
    /\ target = "first" /\ pc = "drop_loop" /\ cur_link = NULL
    /\ LET r == drop_link(heap, head)
       IN  /\ heap' = r.heap
           /\ depth' = Max(depth, r.depth)
           /\ fault' = IF fault = "none" THEN r.fault ELSE fault
    /\ head' = NULL
    /\ pc' = "dropped"
    /\ last_op' = "drop"
    /\ ghost' = <<>>
    /\ UNCHANGED <<target, pair, moved, locals, cursors, ret, ret_ref, empty_pops, iterations,
                   len_at_drop>>

\* ---------------------------------------------------------------- side by side
\* The two test modules make the same calls on a first.rs List and on a
\* second.rs List<i32> (test::basics in both files).  The run below makes each
\* call on the second.rs list, then on the first.rs list: the list that is
\* not being called is parked, and the heap variables hold the other one.
PairInit ==
    /\ target = "second"
    /\ pc = "idle"
    /\ moved = FALSE
    /\ head = NewList.head /\ heap = NewList.heap /\ ghost = NewList.ghost
    /\ parked = NewList
    /\ sched = [op |-> "none", arg |-> 0, ret |-> None]
    /\ new_node = NULL /\ node = NULL /\ cur_link = NULL /\ boxed_node = NULL
    /\ iter_next = NULL /\ itm_next = NULL /\ itm_node = NULL
    /\ yielded = <<>> /\ drained = <<>> /\ snap = <<>>
    /\ ret = None /\ ret_ref = NULL /\ last_op = "new"
    /\ empty_pops = 0
    /\ depth = 0 /\ iterations = 0 /\ len_at_drop = 0
    /\ fault = "none"

\* The heap variables and the parked list change places.
PairSwap ==
    /\ head' = parked.head /\ heap' = parked.heap /\ ghost' = parked.ghost
    /\ parked' = [head |-> head, heap |-> heap, ghost |-> ghost]

\* The test decides on its next call: list.push(arg) or list.pop().
PairCall ==
    /\ target = "second" /\ pc = "idle" /\ sched.op = "none"
    /\ \/ \E elem \in Elems :
             /\ Live(heap) # Addrs /\ Live(parked.heap) # Addrs
             /\ sched' = [op |-> "push", arg |-> elem, ret |-> None]
       \/ sched' = [op |-> "pop", arg |-> 0, ret |-> None]
    /\ last_op' = "call"
    /\ UNCHANGED <<target, parked, pc, moved, head, heap, locals, cursors, ret, ret_ref,
                   ghost, empty_pops, teardown, fault>>

\* The call has returned on the second.rs list: its result is kept and the
\* same call is made on the first.rs list.
PairSwitch ==
    /\ target = "second" /\ pc = "idle" /\ sched.op # "none" /\ last_op = sched.op
    /\ PairSwap
    /\ target' = "first"
    /\ sched' = [sched EXCEPT !.ret = ret]
    /\ last_op' = "call"
    /\ ret' = None
    /\ UNCHANGED <<pc, moved, locals, cursors, ret_ref, empty_pops, teardown, fault>>

\* The call has returned on the first.rs list too.
PairReturn ==
    /\ target = "first" /\ pc = "idle" /\ sched.op # "none" /\ last_op = sched.op
    /\ PairSwap
    /\ target' = "second"
    /\ sched' = [op |-> "none", arg |-> 0, ret |-> None]
    /\ ret' = None
    /\ UNCHANGED <<pc, moved, locals, cursors, ret_ref, last_op, empty_pops, teardown,
                   fault>>

\* The scheduled call is still to be made on the list the heap variables hold.
PairDue(op) == last_op = "call" /\ sched.op = op

PairNext ==
    \/ PairCall
    \/ PairDue("push") /\ push_box /\ heap'[new_node'].elem = sched.arg
    \/ push_set
    \/ PairDue("pop") /\ pop
    \/ pop_map
    \/ PairSwitch
    \/ PairDue("push") /\ first_push_box /\ heap'[new_node'].elem = sched.arg
    \/ first_push_set
    \/ PairDue("pop") /\ first_pop
    \/ first_pop_more
    \/ PairReturn

PairSpec == PairInit /\ [][PairNext]_vars

\* ---------------------------------------------------------------- the program
Next ==
    \/ push_box
    \/ push_set
    \/ pop
    \/ pop_map
    \/ peek
    \/ peek_mut
    \/ write
    \/ release
    \/ iter
    \/ Iter_next
    \/ iter_mut
    \/ IterMut_next_take
    \/ IterMut_next
    \/ into_iter
    \/ IntoIterator_next
    \/ drop_enter
    \/ drop_while_let
    \/ drop_boxed_node
    \/ drop_exit
    \/ first_push_box
    \/ first_push_set
    \/ first_pop
    \/ first_pop_more
    \/ first_drop_enter
    \/ first_drop_while_let
    \/ first_drop_boxed_node
    \/ first_drop_exit

Spec == Init /\ [][Next]_vars
\* ---------------------------------------------------------------- properties
\* No call is running and no borrow is alive.
Idle == pc = "idle"

\* A step on which pop returns an element (second.rs pop / IntoIterator::next,
\* first.rs pop).
PopReturns == pc \in {"pop_map", "pop_more"} /\ pc' = "idle"

\* C1: LIFO. Between calls the chain holds exactly the values pushed and not
\* yet popped, most recently pushed first, and every pop of a non-empty list
\* returns the most recently pushed value that has not been popped yet (so n
\* pushes v1..vn followed by n pops return vn, ..., v1).
C1_Lifo ==
    /\ [](Idle => Chain = ghost)
    /\ [][PopReturns => /\ ghost # <<>>
                        /\ ret' = Some(Head(ghost))
                        /\ Chain' = Tail(ghost)]_vars

\* Three pushes 1, 1, 2 and one pop, which returned the 2.
C1_Witness ==
    /\ Idle /\ last_op = "pop" /\ ret = Some(2) /\ ghost = <<1, 1>> /\ Chain = <<1, 1>>

\* A step on which List::pop is called (second.rs or first.rs).
PopCall == pop \/ first_pop

\* C2: pop on an empty list (fresh, or after every pushed element has been
\* popped) returns None and leaves the list empty, however often it is
\* repeated; the list stays usable: a push after such pops links a one-element
\* chain and the pop of it returns that element and empties the list again.
C2_EmptyPop ==
    /\ [][(PopCall /\ ghost = <<>>) =>
             /\ ret' = None /\ pc' = "idle" /\ last_op' = "pop"
             /\ head' = NULL /\ Live(heap') = {} /\ ghost' = <<>>]_vars
    /\ []((Idle /\ empty_pops > 0) => (head = NULL /\ Live(heap) = {} /\ ghost = <<>>))
    /\ []((Idle /\ Len(ghost) = 1) => (Chain = ghost /\ Cardinality(Live(heap)) = 1))
    /\ [][(PopReturns /\ Len(ghost) = 1) =>
             (ret' = Some(ghost[1]) /\ head' = NULL /\ Live(heap') = {})]_vars

\* pop has returned None MaxEmptyPops times in a row.
C2_Witness ==
    /\ Idle /\ last_op = "pop" /\ ret = None /\ empty_pops = MaxEmptyPops /\ head = NULL

\* C3: whenever peek or peek_mut has just returned, the reference it returned
\* points at the head node's element, which is the most recently pushed value
\* not yet popped, and it returned None exactly when the list is empty.
C3_PeekHead ==
    (pc \in {"idle", "iter", "peek_mut"} /\ last_op \in {"peek", "peek_mut"}) =>
        /\ ret_ref = head
        /\ (ret = None) <=> (ghost = <<>>)
        /\ (head = NULL) <=> (ghost = <<>>)
        /\ ghost # <<>> => ret = Some(Head(ghost))

\* peek_mut returned a view of the 2 on top of a two-element list.
C3_Witness ==
    /\ pc = "peek_mut" /\ last_op = "peek_mut" /\ ret = Some(2) /\ ghost = <<2, 1>>
    /\ ret_ref = head

\* C4: peek changes neither the chain nor its nodes; a peek that follows a peek
\* returns the same view; after a peek the chain still holds the abstract
\* stack, so later pops return what they would have returned without it.
C4_PeekFrame ==
    /\ [][peek => (head' = head /\ ChainAddrs' = ChainAddrs /\ Chain' = Chain)]_vars
    /\ [][(peek /\ last_op = "peek") => (ret' = ret /\ ret_ref' = ret_ref)]_vars
    /\ []((Idle /\ last_op = "peek") => Chain = ghost)

\* peek returned the 2 on top of <<2, 1>> and the chain is as it was.
C4_Witness ==
    /\ Idle /\ last_op = "peek" /\ ret = Some(2) /\ Chain = <<2, 1>> /\ ghost = <<2, 1>>

\* C5: a write of w through the reference peek_mut returned replaces the head
\* element and nothing else: the chain then is w followed by the old tail, on
\* the same nodes, and it is still the abstract stack (top replaced by w) when
\* the borrow ends; a pop that follows the end of the borrow returns that top,
\* w, and leaves the old tail for the pops after it.
C5_PeekMutWrite ==
    /\ [](pc = "peek_mut" => (head # NULL /\ yielded = <<head>> /\ Chain = ghost))
    /\ [][(write /\ pc = "peek_mut") =>
             /\ Chain' = <<ghost'[1]>> \o Tail(Chain)
             /\ ChainAddrs' = ChainAddrs
             /\ Chain' = ghost']_vars
    /\ [][(release /\ pc = "peek_mut") => (Chain' = Chain /\ Chain' = ghost')]_vars
    /\ [][(PopReturns /\ last_op = "release") =>
             (ret' = Some(Head(ghost)) /\ Chain' = Tail(ghost))]_vars

\* 2 was written over the top of a two-element list whose second element is 1.
C5_Witness ==
    /\ pc = "peek_mut" /\ last_op = "write" /\ Chain = <<2, 1>> /\ Len(yielded) = 1

\* C6: what an IntoIterator has yielded so far, followed by what its list
\* still holds, is the stack it was made from; a next that yields returns the
\* element just drained; next returns None only when all n elements have been
\* yielded, and from then on every next returns None.
C6_IntoIter ==
    /\ []((moved /\ Idle) =>
            /\ drained \o Chain = snap
            /\ last_op = "next" =>
                  IF ret = None
                  THEN drained = snap /\ head = NULL
                  ELSE drained # <<>> /\ ret = Some(drained[Len(drained)]))
    /\ [][(moved /\ Idle /\ last_op = "next" /\ ret = None) => ret' = None]_vars

\* A list of three was drained and next then returned None MaxEmptyPops times.
C6_Witness ==
    /\ moved /\ Idle /\ last_op = "next" /\ ret = None /\ empty_pops = MaxEmptyPops
    /\ drained = <<2, 1, 1>> /\ snap = <<2, 1, 1>>

\* C7: while an Iter is alive the chain is the stack it was created on; the
\* references it has yielded are those of the chain's nodes from the head on,
\* in order, and it holds the node after them; next returns None exactly when
\* all n have been yielded; dropping the cursor leaves the chain as it was.
C7_Iter ==
    /\ [](pc = "iter" =>
            /\ Chain = snap /\ Chain = ghost
            /\ Prefix(yielded, ChainAddrs)
            /\ iter_next = IF Len(yielded) < Len(ChainAddrs)
                           THEN ChainAddrs[Len(yielded) + 1] ELSE NULL
            /\ last_op = "iter_next" =>
                  IF ret = None
                  THEN yielded = ChainAddrs
                  ELSE /\ yielded # <<>> /\ ret_ref = yielded[Len(yielded)]
                       /\ ret = Some(snap[Len(yielded)]))
    /\ [][(release /\ pc = "iter") => (Chain' = snap /\ ChainAddrs' = ChainAddrs)]_vars

\* An Iter over <<2, 1, 1>> yielded its three elements and then None.
C7_Witness ==
    /\ pc = "iter" /\ last_op = "iter_next" /\ ret = None /\ Len(yielded) = 3
    /\ snap = <<2, 1, 1>>

\* C8: while an IterMut is alive the references it has yielded are those of
\* the chain's nodes from the head on, in order; a write through the k-th of
\* them changes the k-th element of the chain and nothing else, so the chain
\* holds the written values at their positions (it is the abstract stack with
\* those writes applied); no step changes the chain's nodes or its length; and
\* a later shared traversal yields the values written.
C8_IterMut ==
    /\ [](pc \in {"iter_mut", "iter_mut_map"} =>
            /\ Prefix(yielded, ChainAddrs)
            /\ Chain = ghost
            /\ (pc = "iter_mut" /\ last_op = "iter_mut_next") =>
                  IF ret = None
                  THEN yielded = ChainAddrs
                  ELSE /\ yielded # <<>> /\ ret_ref = yielded[Len(yielded)]
                       /\ ret = Some(Chain[Len(yielded)]))
    /\ [][(pc \in {"iter_mut", "iter_mut_map"}) => (ChainAddrs' = ChainAddrs)]_vars
    /\ [][(write /\ pc = "iter_mut") =>
             \E k \in 1..Len(yielded) : \E w \in Elems :
                 Chain' = [Chain EXCEPT ![k] = w] /\ ghost' = [ghost EXCEPT ![k] = w]]_vars
    /\ []((pc = "iter" /\ last_op = "iter_next" /\ ret # None) =>
             ret = Some(ghost[Len(yielded)]))

\* All three references of an IterMut over a list pushed as 1, 1, 1 were
\* written through: the chain now holds 2, 2, 2.
C8_Witness ==
    /\ pc = "iter_mut" /\ last_op = "write" /\ Len(yielded) = 3 /\ Chain = <<2, 2, 2>>
    /\ \A a \in Addrs : heap[a].live

\* C9: in Drop::drop no node destructor runs inside another: when the node
\* bound by `while let` goes out of scope it is allocated and its next link is
\* already Empty, and the deepest nesting of node destructors over the whole
\* teardown is 1 for every non-empty list (0 for the empty one).
C9_NoNesting ==
    /\ pc = "drop_scope_end" => (heap[boxed_node].live /\ heap[boxed_node].next = NULL)
    /\ depth <= 1
    /\ pc = "dropped" => depth = Min(1, len_at_drop)

\* A list of MaxNodes nodes was torn down at nesting depth 1.
C9_Witness ==
    /\ pc = "dropped" /\ len_at_drop = MaxNodes /\ depth = 1 /\ iterations = MaxNodes

\* The teardown loop is running.
InTeardown == pc \in {"drop_loop", "drop_scope_end"}

\* The nodes the loop variable still owns.
Remaining == Len(AddrsFrom(heap, cur_link, MaxNodes + 1))

\* C10: Drop::drop on a list of n nodes terminates; the iterations run and
\* the nodes still owned add up to n throughout; each iteration frees exactly
\* one node; on exit the loop has run n times, head is Empty, no node is
\* allocated and none was freed twice.
C10_DropTerminates ==
    /\ [](InTeardown =>
            iterations + Remaining + (IF pc = "drop_scope_end" THEN 1 ELSE 0) = len_at_drop)
    /\ [][(pc = "drop_scope_end") =>
             /\ iterations' = iterations + 1
             /\ Live(heap') \subseteq Live(heap)
             /\ Cardinality(Live(heap) \ Live(heap')) = 1]_vars
    /\ [](pc = "dropped" =>
            /\ iterations = len_at_drop
            /\ head = NULL /\ Live(heap) = {} /\ fault = "none")
    /\ (InTeardown ~> pc = "dropped")

\* A first.rs list of MaxNodes nodes was torn down in MaxNodes iterations.
C10_Witness ==
    /\ target = "first" /\ pc = "dropped" /\ len_at_drop = MaxNodes
    /\ iterations = MaxNodes /\ Live(heap) = {}

\* The teardown loop has no suspension point: once entered, it keeps running.
DropStep ==
    \/ drop_while_let
    \/ drop_boxed_node
    \/ drop_exit
    \/ first_drop_while_let
    \/ first_drop_boxed_node
    \/ first_drop_exit

LiveSpec == Spec /\ WF_vars(DropStep)
\* The number of nodes a link owns.
LenFrom(h, link) == Len(AddrsFrom(h, link, MaxNodes + 1))

Length == LenFrom(heap, head)

\* A step on which push boxes the new node, and one on which it links it.
PushBoxes == push_box \/ first_push_box
PushLinks == push_set \/ first_push_set

\* C11: the chain length follows the stack's state machine.  new() gives
\* length 0; between calls the length is the number of values pushed and not
\* yet popped, and head is Empty exactly when that number is 0; push puts the
\* old chain plus one node into the new box and then links all of it, so it
\* adds exactly 1; a pop of a non-empty list takes the whole chain and puts
\* back all but one node; a pop of the empty list leaves length 0.
C11_Length ==
    /\ [](last_op = "new" /\ Idle => Length = 0 /\ head = NULL)
    /\ [](Idle => (Length = Len(ghost) /\ ((head = NULL) <=> (Len(ghost) = 0))))
    /\ [][PushBoxes => (LenFrom(heap', new_node') = Length + 1 /\ head' = NULL)]_vars
    /\ [][PushLinks => (Length' = LenFrom(heap, new_node) /\ Length' >= 1)]_vars
    /\ [][((pop_take \/ first_pop) /\ head # NULL) =>
             (LenFrom(heap', node') = Length /\ Length >= 1)]_vars
    /\ [][PopReturns => Length' = LenFrom(heap, node) - 1]_vars
    /\ [][((pop_take \/ first_pop) /\ head = NULL) => (Length' = 0 /\ pc' = "idle")]_vars

\* A first.rs list went up to three nodes and a pop brought it back to two.
C11_Witness ==
    /\ target = "first" /\ Idle /\ last_op = "pop" /\ ret # None /\ Length = 2
    /\ Cardinality(Live(heap)) = 2

\* The owning slots that hold node a: the list's head, the next field of an
\* allocated node, and the owning locals of the running call (push's
\* new_node, pop's node, drop's cur_link and boxed_node).  The references of
\* Iter and IterMut borrow and own nothing.
OwnerCount(a) ==
    (IF head = a THEN 1 ELSE 0)
    + Cardinality({b \in Addrs : heap[b].live /\ heap[b].next = a})
    + (IF new_node = a THEN 1 ELSE 0)
    + (IF node = a THEN 1 ELSE 0)
    + (IF cur_link = a THEN 1 ELSE 0)
    + (IF boxed_node = a THEN 1 ELSE 0)

\* C12: in every state, the steps inside push, pop and drop included, no node
\* is held by two owning slots; every allocated node is held by exactly one,
\* and no owning slot holds a node that is not allocated.
C12_SingleOwner ==
    \A a \in Addrs :
        /\ OwnerCount(a) <= 1
        /\ heap[a].live => OwnerCount(a) = 1
        /\ ~heap[a].live => OwnerCount(a) = 0

\* Inside pop: head has been swapped to Empty and the closure's node owns a
\* chain of three.
C12_Witness ==
    /\ pc = "pop_map" /\ head = NULL /\ node # NULL
    /\ LenFrom(heap, node) = 3 /\ \A a \in Addrs : OwnerCount(a) = 1

\* The elements of a sequence.
Range(s) == {s[i] : i \in 1..Len(s)}

\* C13: between calls, following next from head visits allocated nodes only,
\* visits none of them twice, and reaches Empty after exactly as many steps as
\* there are values pushed and not yet popped (the walk, which is cut off
\* after MaxNodes + 1 steps, ends before the cut).
C13_Acyclic ==
    Idle =>
        /\ Len(ChainAddrs) = Len(ghost)
        /\ Len(ChainAddrs) <= MaxNodes
        /\ Cardinality(Range(ChainAddrs)) = Len(ChainAddrs)
        /\ \A a \in Range(ChainAddrs) : heap[a].live /\ heap[a].next # a
        /\ ChainAddrs # <<>> => heap[ChainAddrs[Len(ChainAddrs)]].next = NULL

\* After pushes and pops that reused addresses the chain runs 2 -> 3 -> 1.
C13_Witness ==
    /\ Idle /\ ChainAddrs = <<2, 3, 1>> /\ last_op = "push"
    /\ heap[1].next = NULL

\* The nodes reachable from the owning slots: head and the owning locals.
Owned ==
    Range(ChainAddrs)
    \cup Range(AddrsFrom(heap, new_node, MaxNodes + 1))
    \cup Range(AddrsFrom(heap, node, MaxNodes + 1))
    \cup Range(AddrsFrom(heap, cur_link, MaxNodes + 1))
    \cup Range(AddrsFrom(heap, boxed_node, MaxNodes + 1))

\* C14: no node is leaked or freed twice.  In every state the allocated nodes
\* are exactly those an owning slot reaches, and between calls exactly those
\* reachable from head; push allocates one node that was not allocated; a
\* returning pop frees one node, which was allocated; no destructor ever
\* frees a node that is not allocated; once the list is dropped nothing is
\* allocated.
C14_NoLeakNoDoubleFree ==
    /\ [](Live(heap) = Owned)
    /\ [](Idle => Live(heap) = Range(ChainAddrs))
    /\ [](fault = "none")
    /\ [](pc = "dropped" => Live(heap) = {})
    /\ [][PushBoxes => (new_node' \notin Live(heap)
                        /\ Live(heap') = Live(heap) \cup {new_node'})]_vars
    /\ [][PopReturns => (node \in Live(heap) /\ Live(heap') = Live(heap) \ {node})]_vars
    /\ [][(pc \notin {"idle", "pop_map", "pop_more", "drop_scope_end", "drop_loop"}) =>
             (Live(heap') = Live(heap))]_vars

\* Three pushes, a pop that returned 2, then the drop of the two nodes left:
\* nothing is allocated.
C14_Witness ==
    /\ target = "second" /\ pc = "dropped" /\ ret = Some(2) /\ ret_ref = NULL
    /\ len_at_drop = 2 /\ iterations = 2 /\ Live(heap) = {} /\ fault = "none"

\* ---------------------------------------------------------------- C16
\* The chain of the parked list, head first.
ParkedChain == ChainFrom(parked.heap, parked.head, MaxNodes + 1)

\* The scheduled call has returned on both lists.
PairBothReturned ==
    target = "first" /\ Idle /\ sched.op # "none" /\ last_op = sched.op

\* C16: first.rs List and second.rs List<i32>, run side by side from new() on
\* the same sequence of push and pop calls, are observationally equivalent:
\* whenever a call has returned on both, both returned the same result (for
\* pop, the same Option) and both chains hold the same elements in the same
\* order; the chains are also equal whenever no call is in progress.
C16_Equivalent ==
    /\ PairBothReturned => (ret = sched.ret /\ Chain = ParkedChain)
    /\ (Idle /\ sched.op = "none") => (Chain = ParkedChain /\ ghost = parked.ghost)
    /\ (PairBothReturned /\ sched.op = "push") => (Len(Chain) >= 1 /\ Head(Chain) = sched.arg)

\* Both lists have popped 2 off equal three-element chains whose nodes sit at
\* different addresses.
C16_Witness ==
    /\ PairBothReturned /\ sched.op = "pop"
    /\ ret = Some(2) /\ sched.ret = Some(2)
    /\ Len(Chain) = 2 /\ Chain = ParkedChain
    /\ ChainAddrs # AddrsFrom(parked.heap, parked.head, MaxNodes + 1)

\* ---------------------------------------------------------------- C17
\* pop holds the detached node and has not yet run its closure / match arm.
PopHolds == pc \in {"pop_map", "pop_more"}

\* C17: a pop on a non-empty list destroys exactly one node.  While pop holds
\* the detached node, head is Empty and the node is allocated; when pop
\* returns, head is the node's next link, the node is the only cell that
\* changes and the only one freed, and the chain that was behind it is the
\* list's chain, every node of it still allocated.
C17_PopFreesOne ==
    /\ [](PopHolds => (head = NULL /\ node # NULL /\ heap[node].live))
    /\ [][PopReturns =>
            /\ head' = heap[node].next
            /\ Live(heap) \ Live(heap') = {node}
            /\ Live(heap') \ Live(heap) = {}
            /\ \A a \in Addrs \ {node} : heap'[a] = heap[a]
            /\ ChainAddrs' = AddrsFrom(heap, heap[node].next, MaxNodes + 1)
            /\ Range(ChainAddrs') \subseteq Live(heap')
            /\ Chain' = Tail(ChainFrom(heap, node, MaxNodes + 1))
            /\ node' = NULL]_vars

\* A pop has returned 2 from a three-node chain and two nodes are still
\* allocated and linked.
C17_Witness ==
    /\ Idle /\ ~moved /\ last_op = "pop" /\ ret = Some(2)
    /\ Cardinality(Live(heap)) = 2 /\ Range(ChainAddrs) = Live(heap)

\* ---------------------------------------------------------------- C18
\* An exclusive cursor exists (between calls of next, or inside one).
IterMutLive == pc \in {"iter_mut", "iter_mut_map"}

\* No value occurs twice in s.
NoRepeats(s) == \A i, j \in 1..Len(s) : s[i] = s[j] => i = j

\* C18: IterMut::next empties the cursor's held reference before it hands out
\* the element reference (inside next, after take(), the cursor holds
\* nothing and the taken reference is the only one to its node), and then
\* stores only the reference to the successor.  So in every state the node
\* the cursor holds is none of the nodes whose element has been yielded, and
\* no node is yielded twice by one cursor.
C18_IterMutExclusive ==
    /\ [](pc = "iter_mut_map" => itm_next = NULL)
    /\ [](IterMutLive =>
            /\ itm_next \notin Range(yielded)
            /\ itm_node \notin Range(yielded)
            /\ NoRepeats(yielded)
            /\ Range(yielded) \subseteq Live(heap)
            /\ (itm_next = NULL \/ itm_node = NULL))
    /\ [][(IterMut_next /\ itm_node # NULL) =>
            /\ ret_ref' = itm_node
            /\ itm_next' = heap[itm_node].next
            /\ itm_next' # itm_node
            /\ itm_node' = NULL
            /\ yielded' = Append(yielded, itm_node)]_vars

\* Inside the second call of next on a chain of at least two nodes: one
\* element reference is out, the second node has been taken and the cursor
\* holds nothing.
C18_Witness ==
    /\ pc = "iter_mut_map" /\ itm_next = NULL /\ itm_node # NULL
    /\ Len(yielded) = 1 /\ heap[yielded[1]].next = itm_node

\* ---------------------------------------------------------------- C19
\* The cursor has nothing left to yield.
IterDone == pc = "iter" /\ iter_next = NULL
IterMutDone == IterMutLive /\ itm_next = NULL /\ itm_node = NULL

\* C19: Iter and IterMut are forward-only and stay exhausted.  When next has
\* returned None the cursor holds nothing; a cursor that holds nothing holds
\* nothing for as long as it lives, and every call of next on it returns None;
\* a call that yields a node appends it to the nodes yielded and moves to a
\* node that has not been yielded, so no node is visited twice.
C19_StayExhausted ==
    /\ []((pc = "iter" /\ last_op = "iter_next" /\ ret = None) => IterDone)
    /\ []((pc = "iter_mut" /\ last_op = "iter_mut_next" /\ ret = None) => IterMutDone)
    /\ [][(IterDone /\ pc' = "iter") =>
            (IterDone' /\ yielded' = yielded /\ (Iter_next => ret' = None))]_vars
    /\ [][(IterMutDone /\ IterMutLive') =>
            (IterMutDone' /\ yielded' = yielded /\ (IterMut_next => ret' = None))]_vars
    /\ [][(Iter_next /\ iter_next # NULL) =>
            /\ iter_next \notin Range(yielded)
            /\ yielded' = Append(yielded, iter_next)
            /\ iter_next' \notin Range(yielded')]_vars
    /\ [][(IterMut_next /\ itm_node # NULL) =>
            /\ itm_node \notin Range(yielded)
            /\ itm_next' \notin Range(yielded')]_vars
    /\ [](pc = "iter" => NoRepeats(yielded))

\* An Iter over a two-element list has yielded both nodes and then None.
C19_Witness ==
    /\ IterDone /\ last_op = "iter_next" /\ ret = None
    /\ Len(yielded) = 2 /\ yielded = ChainAddrs

\* ---------------------------------------------------------------- C20
\* The elements a draining cursor has not yielded: n - k.
Undrained == Len(snap) - Len(drained)

\* C20: an IntoIterator created on n elements that has yielded k of them owns
\* the n - k nodes left in the wrapped list.  Dropping it runs the list's
\* Drop: the loop starts on those n - k nodes, frees one node per iteration,
\* and ends after n - k iterations with no node allocated, none freed twice
\* and no node destructor nested in another.
C20_DropPartlyDrained ==
    /\ [](moved => (Prefix(drained, snap) /\ Undrained >= 0))
    /\ []((moved /\ Idle) => (Cardinality(Live(heap)) = Undrained /\ Len(Chain) = Undrained))
    /\ []((moved /\ (InTeardown \/ pc = "dropped")) =>
            (len_at_drop = Undrained /\ iterations <= Undrained /\ fault = "none"))
    /\ []((moved /\ InTeardown) =>
            Cardinality(Live(heap)) = Undrained - iterations)
    /\ [][(moved /\ drop_boxed_node) => (Live(heap) \ Live(heap') = {boxed_node})]_vars
    /\ []((moved /\ pc = "dropped") =>
            /\ Live(heap) = {}
            /\ head = NULL
            /\ iterations = Undrained
            /\ depth <= 1)

\* A draining cursor over three elements was dropped after yielding one: the
\* loop ran twice and nothing is allocated.
C20_Witness ==
    /\ moved /\ pc = "dropped" /\ Len(snap) = 3 /\ Len(drained) = 1
    /\ iterations = 2 /\ Live(heap) = {} /\ fault = "none"

====
